---- MODULE Spec2Model ----
(***************************************************************************)
(* The OAuth relay of the Deskly website (src/server.js): GET /auth/login  *)
(* and GET /auth/callback, the session routes GET /api/me, GET /account    *)
(* and /auth/logout, the token codec they use, the browsers' cookie jars   *)
(* and the identity provider as an opaque collaborator.                    *)
(*                                                                         *)
(* Specifications.  Spec: one browser, every state text.  SpecSession: one *)
(* browser, its flows, its session and restarts with another JWT_SECRET.   *)
(* SpecTokens: one client presenting any token text.  SpecTwo: two         *)
(* browsers and two callbacks in flight.  SpecOverlap: one browser, two    *)
(* logins and two callbacks in flight.  SpecLive: the same browser with a  *)
(* provider that answers every exchange in the end.  SpecLegacy: the       *)
(* second copy of the server that src/server.js holds from line 481 on.    *)
(*                                                                         *)
(* Text values.  Names, emails, ids and error texts are sequences of       *)
(* one-character strings; the JavaScript values null, undefined and ''     *)
(* are all falsy and are all modelled by the empty sequence.  Fixed texts  *)
(* of the server are one-element sequences holding the whole literal.      *)
(* Nonces are positive integers, 0 standing for an absent value.           *)
(*                                                                         *)
(* The provider.  authenticateWithCode either resolves with a user, which  *)
(* always has an id and an email, or rejects with an error; constructing   *)
(* the WorkOS client throws when its configuration is missing.             *)
(*                                                                         *)
(* Requests.  A callback is one action up to the await of the code         *)
(* exchange and one action after it.  The browser takes the Set-Cookie     *)
(* headers of an answer in the step that sends it; resp shows that answer  *)
(* until Settle, and the server keeps nothing of it afterwards.            *)
(***************************************************************************)
EXTENDS Integers, Sequences, FiniteSets, TLC

\* ---------------------------------------------------------------- bounds
MaxNonces == 2          \* nonces /auth/login may generate in one behaviour
TickDays == 15          \* days the clock advances in one Tick
MaxClock == 30          \* last day the clock reaches

\* ----------------------------------------------------- program constants
TokenLifetimeDays == 30 \* jwt.sign(..., { expiresIn: '30d' })

Clients == {"b1", "b2"}         \* browsers, each with its own cookie jar
ReqIds == {1, 2}                \* requests the server may have in flight

\* ----------------------------------------------------------------- state
VARIABLES
    isProduction,   \* NODE_ENV === 'production'
    configured,     \* WORKOS_API_KEY and WORKOS_CLIENT_ID are set
    jwtSecret,      \* JWT_SECRET, "" when it is not set
    up,             \* the process has started and serves requests
    now,            \* the clock, in days
    nonces,         \* how many nonces crypto.randomBytes has produced
    jar,            \* the cookie jar of each browser
    req,            \* the callbacks awaiting the code exchange, by slot
    resp            \* the request answered last, until its browser has taken the answer

env == <<isProduction, configured, jwtSecret, up>>

vars == <<env, now, nonces, jar, req, resp>>

\* the values JWT_SECRET may have
Secrets == {"", "k1"}

DefaultSecret == "dev-secret-change-me"

JWT_KEY == IF jwtSecret # "" THEN jwtSecret ELSE DefaultSecret
desktopScheme == "deskly"

Null == <<>>
Truthy(s) == s # Null

\* ------------------------------------------------------ provider's users
User(id, email, first, last, pic) ==
    [id |-> id, email |-> email, firstName |-> first, lastName |-> last,
     profilePictureUrl |-> pic]

NoUser == User(Null, Null, Null, Null, Null)

Users ==
    { User(<<"u", "1">>, <<"a", "@", "b">>, Null, Null, Null),
      User(<<"u", "2">>, <<"c", "@", "d">>, <<"<", "s", ">">>, <<"L">>, <<"p">>) }

\* the message of the error authenticateWithCode throws, which may be empty
ProviderErrors == { Null, <<"i", "n", "v">>, <<"<", "e", ">">> }

NoApiKeyError == <<"WorkOS requires an API key">>

\* ------------------------------------------------------------------- esc
escChar(ch) ==
    CASE ch = "&" -> <<"&", "a", "m", "p", ";">>
      [] ch = "<" -> <<"&", "l", "t", ";">>
      [] ch = ">" -> <<"&", "g", "t", ";">>
      [] ch = "\"" -> <<"&", "q", "u", "o", "t", ";">>
      [] ch = "'" -> <<"&", "#", "3", "9", ";">>
      [] OTHER -> <<ch>>

RECURSIVE esc(_)
esc(str) ==
    IF str = Null THEN <<>>
    ELSE escChar(Head(str)) \o esc(Tail(str))

\* ----------------------------------------------------------- token codec
RECURSIVE splitAt0(_)
\* email.split('@')[0]: the text before the first '@'
splitAt0(s) ==
    IF s = <<>> \/ Head(s) = "@" THEN <<>>
    ELSE <<Head(s)>> \o splitAt0(Tail(s))

displayNameOf(user) ==
    user.firstName \o (IF Truthy(user.lastName) THEN <<" ">> \o user.lastName ELSE <<>>)

NoToken ==
    [kind |-> "none", chars |-> "unreserved", sub |-> Null, email |-> Null,
     name |-> Null, picture |-> Null, iat |-> 0, exp |-> 0, key |-> ""]

\* a token whose subject is the email instead of the provider's user id
signTokenSubEmail(user, at) ==
    [kind |-> "jwt", chars |-> "unreserved",
     sub |-> user.email,
     email |-> user.email,
     name |-> IF Truthy(user.firstName) THEN displayNameOf(user)
              ELSE splitAt0(user.email),
     picture |-> IF Truthy(user.profilePictureUrl) THEN user.profilePictureUrl ELSE Null,
     iat |-> at,
     exp |-> at + TokenLifetimeDays,
     key |-> JWT_KEY]

\* jwt.sign: a compact JWT (base64url segments joined by dots, so only
\* unreserved characters) carrying the payload, iat and exp, signed with key
signToken(user, at) ==
    [kind |-> "jwt", chars |-> "unreserved",
     sub |-> user.id,
     email |-> user.email,
     name |-> IF Truthy(user.firstName) THEN displayNameOf(user)
              ELSE splitAt0(user.email),
     picture |-> IF Truthy(user.profilePictureUrl) THEN user.profilePictureUrl ELSE Null,
     iat |-> at,
     exp |-> at + TokenLifetimeDays,
     key |-> JWT_KEY]

NoClaims ==
    [sub |-> Null, email |-> Null, name |-> Null, picture |-> Null, iat |-> 0, exp |-> 0]

\* a verification that does not look at the signature
verifyTokenAnyKey(token, at) ==
    IF token.kind = "jwt" /\ at < token.exp
    THEN [ok |-> TRUE,
          claims |-> [sub |-> token.sub, email |-> token.email, name |-> token.name,
                      picture |-> token.picture, iat |-> token.iat, exp |-> token.exp]]
    ELSE [ok |-> FALSE, claims |-> NoClaims]

\* a verification that still accepts a token at the instant it expires
verifyTokenInclusiveExpiry(token, at) ==
    IF token.kind = "jwt" /\ token.key = JWT_KEY /\ at <= token.exp
    THEN [ok |-> TRUE,
          claims |-> [sub |-> token.sub, email |-> token.email, name |-> token.name,
                      picture |-> token.picture, iat |-> token.iat, exp |-> token.exp]]
    ELSE [ok |-> FALSE, claims |-> NoClaims]

\* a verification with a key ring: tokens of the built-in key stay valid
verifyTokenKeyRing(token, at) ==
    IF token.kind = "jwt" /\ token.key \in {JWT_KEY, DefaultSecret} /\ at < token.exp
    THEN [ok |-> TRUE,
          claims |-> [sub |-> token.sub, email |-> token.email, name |-> token.name,
                      picture |-> token.picture, iat |-> token.iat, exp |-> token.exp]]
    ELSE [ok |-> FALSE, claims |-> NoClaims]

\* jwt.verify throws on a malformed token, a bad signature and at >= exp;
\* verifyToken turns every throw into null
verifyToken(token, at) ==
    IF token.kind = "jwt" /\ token.key = JWT_KEY /\ at < token.exp
    THEN [ok |-> TRUE,
          claims |-> [sub |-> token.sub, email |-> token.email, name |-> token.name,
                      picture |-> token.picture, iat |-> token.iat, exp |-> token.exp]]
    ELSE [ok |-> FALSE, claims |-> NoClaims]

\* encodeURIComponent leaves unreserved characters alone and percent-encodes
\* the rest
encodeURIComponent(t) ==
    IF t.chars = "unreserved" THEN t ELSE [t EXCEPT !.chars = "percent-encoded"]

\* what the desktop application reads from the token query parameter
decodeURIComponent(t) ==
    IF t.chars = "percent-encoded" THEN [t EXCEPT !.chars = "reserved"] ELSE t

\* --------------------------------------------------- the state parameter
\* The text of the state query parameter, by what JSON.parse makes of it:
\* absent (or ''), not JSON, the JSON null, a JSON scalar or array, an object
stateText(kind, n, source, device_id) ==
    [kind |-> kind, n |-> n, source |-> source, device_id |-> device_id]

StateAbsent == stateText("absent", 0, "", "")
StateGarbage == stateText("garbage", 0, "", "")
StateJsonNull == stateText("null", 0, "", "")
StateJsonScalar == stateText("scalar", 0, "", "")

Sources == {"", "web", "desktop", "mobile"}
DeviceIds == {"", "abc123"}

\* JSON.stringify of the state payload of /auth/login
JSONstringify(payload) ==
    stateText("object", payload.n, payload.source, payload.device_id)

\* JSON.parse: throws on text that is not JSON, else the value
JSONparse(text) ==
    [threw |-> text.kind = "garbage", value |-> text]

StateTexts ==
    {StateAbsent, StateGarbage, StateJsonNull, StateJsonScalar}
    \cup { stateText("object", n, s, d) : n \in 0..MaxNonces, s \in Sources, d \in DeviceIds }

Codes == {"", "c1"}

\* ------------------------------------------------------------- responses
NoLink == [scheme |-> "", path |-> "", token |-> NoToken]

Body(kind, text, displayName, email, deepLink, location, state) ==
    [kind |-> kind, text |-> text, displayName |-> displayName, email |-> email,
     deepLink |-> deepLink, location |-> location, state |-> state,
     userId |-> <<>>, picture |-> <<>>, avatar |-> <<>>, claims |-> NoClaims]

NoBody == Body("none", <<>>, <<>>, <<>>, NoLink, "", StateAbsent)
TextBody(text) == Body("text", text, <<>>, <<>>, NoLink, "", StateAbsent)
Redirect(location, state) == Body("redirect", <<>>, <<>>, <<>>, NoLink, location, state)

MissingCodeText == <<"Missing authorization code from WorkOS">>
CsrfText == <<"OAuth state mismatch - possible CSRF. Please try signing in again.">>
GenericErrorText == <<"An unexpected error occurred. Please try again later.">>
UnknownErrorText == <<"Unknown error">>

\* an error handler that shows the error's message in production too
errorHandlerLeaky(message, production) ==
    Body("error", esc(IF Truthy(message) THEN message ELSE UnknownErrorText),
         <<>>, <<>>, NoLink, "", StateAbsent)

\* the error-handling middleware: the body of its 500 response
errorHandler(message, production) ==
    Body("error",
         IF production THEN GenericErrorText
         ELSE esc(IF Truthy(message) THEN message ELSE UnknownErrorText),
         <<>>, <<>>, NoLink, "", StateAbsent)

\* the deep-link page; esc leaves the deep link as it is, since the scheme,
\* the path and an encoded token hold none of the characters esc replaces
desktopCallbackPage(user, deepLink) ==
    Body("desktopPage", <<>>,
         esc(IF Truthy(user.firstName) THEN displayNameOf(user) ELSE user.email),
         esc(user.email), deepLink, "", StateAbsent)

\* -------------------------------------------------------------- requests
\* the Authorization header: none, Bearer <token> or another scheme
NoAuth == [scheme |-> "none", token |-> NoToken]
Bearer(token) == [scheme |-> "Bearer", token |-> token]
BasicAuth == [scheme |-> "Basic", token |-> NoToken]

DefaultContext == [source |-> "desktop", device_id |-> ""]

\* the options of a cookie header that was not written
NoOptions == [httpOnly |-> FALSE, secure |-> FALSE, sameSite |-> "", maxAge |-> 0, path |-> ""]

\* the options of res.cookie('oauth_nonce', nonce, {...}); maxAge is kept in
\* seconds, the unit of the Max-Age attribute res.cookie writes from it
nonceCookieOptions(production) ==
    [httpOnly |-> TRUE, secure |-> production, sameSite |-> "lax",
     maxAge |-> 10 * 60, path |-> "/auth/callback"]

\* the options of res.clearCookie('oauth_nonce', {...})
clearNonceCookieOptions == [NoOptions EXCEPT !.path = "/auth/callback"]

\* a session cookie that is never marked secure
sessionCookieOptionsInsecure(production) ==
    [httpOnly |-> TRUE, secure |-> FALSE, sameSite |-> "lax",
     maxAge |-> 30 * 24 * 60 * 60, path |-> "/"]

\* the options of res.cookie('deskly_token', token, {...}); the path is the
\* default of res.cookie
sessionCookieOptions(production) ==
    [httpOnly |-> TRUE, secure |-> production, sameSite |-> "lax",
     maxAge |-> 30 * 24 * 60 * 60, path |-> "/"]

Idle ==
    [route |-> "none", client |-> "b1", code |-> "", state |-> StateAbsent,
     cookieNonce |-> 0, phase |-> "IDLE", trace |-> <<>>, compared |-> FALSE,
     context |-> DefaultContext, calls |-> 0, user |-> NoUser, token |-> NoToken,
     err |-> Null, status |-> 0, body |-> NoBody, clearNonce |-> FALSE,
     setNonce |-> 0, setToken |-> NoToken, clearToken |-> FALSE,
     method |-> "GET", auth |-> NoAuth, cookieToken |-> NoToken,
     examined |-> NoToken, query |-> [device_id |-> "", source |-> ""],
     setNonceOptions |-> NoOptions, clearNonceOptions |-> NoOptions,
     setTokenOptions |-> NoOptions]

\* a request as it arrives: its query and the cookies the browser sent
Arrived(route, client, code, state, cookieNonce) ==
    [Idle EXCEPT !.route = route, !.client = client, !.code = code, !.state = state,
                 !.cookieNonce = cookieNonce]

Terminal == {"RESPONSE_RENDERED", "REJECTED_NO_CODE", "REJECTED_CSRF",
             "REJECTED_EXCHANGE_FAILED"}

\* res.status(...).send(...) / res.redirect(...): the request ends in phase
Respond(q, phase, status, body) ==
    [q EXCEPT !.phase = phase, !.trace = q.trace \o <<phase>>, !.status = status,
              !.body = body]

\* a nonce check that lets a request without a nonce cookie pass
nonceCheckCookieOptional(state, savedNonce) ==
    IF state.kind = "absent" \/ JSONparse(state).threw \/ savedNonce = 0
       \/ state.kind = "null"
    THEN [reject |-> FALSE, compared |-> FALSE, context |-> DefaultContext]
    ELSE IF state.n # savedNonce
    THEN [reject |-> TRUE, compared |-> TRUE, context |-> DefaultContext]
    ELSE [reject |-> FALSE, compared |-> TRUE,
          context |-> [source |-> IF state.source # "" THEN state.source ELSE "desktop",
                       device_id |-> state.device_id]]

\* a nonce check that answers 403 to a state that is not JSON
nonceCheckRejectMalformed(state, savedNonce) ==
    IF state.kind = "absent"
    THEN [reject |-> FALSE, compared |-> FALSE, context |-> DefaultContext]
    ELSE IF JSONparse(state).threw \/ savedNonce = 0
    THEN [reject |-> TRUE, compared |-> ~JSONparse(state).threw, context |-> DefaultContext]
    ELSE IF state.kind = "null"
    THEN [reject |-> FALSE, compared |-> FALSE, context |-> DefaultContext]
    ELSE IF state.n # savedNonce
    THEN [reject |-> TRUE, compared |-> TRUE, context |-> DefaultContext]
    ELSE [reject |-> FALSE, compared |-> TRUE,
          context |-> [source |-> IF state.source # "" THEN state.source ELSE "desktop",
                       device_id |-> state.device_id]]

\* the nonce check of the callback (the inner try block): whether it answers
\* 403, whether it compared the state's nonce with the cookie, and the context
nonceCheck(state, savedNonce) ==
    IF state.kind = "absent"
    THEN [reject |-> FALSE, compared |-> FALSE, context |-> DefaultContext]
    ELSE LET parsed == JSONparse(state) IN
         IF parsed.threw
         THEN [reject |-> FALSE, compared |-> FALSE, context |-> DefaultContext]
         ELSE IF savedNonce = 0
         THEN [reject |-> TRUE, compared |-> TRUE, context |-> DefaultContext]
         ELSE IF parsed.value.kind = "null"
         \* parsed.n throws a TypeError, which the catch block swallows
         THEN [reject |-> FALSE, compared |-> FALSE, context |-> DefaultContext]
         ELSE IF parsed.value.n # savedNonce
         THEN [reject |-> TRUE, compared |-> TRUE, context |-> DefaultContext]
         ELSE [reject |-> FALSE, compared |-> TRUE,
               context |-> [source |-> IF parsed.value.source # "" THEN parsed.value.source
                                       ELSE "desktop",
                            device_id |-> parsed.value.device_id]]

\* a callback that checks the nonce before it looks for the code
callbackEntryNonceFirst(q, hasClient, production) ==
    LET q0 == [q EXCEPT !.phase = "AWAITING_CODE", !.trace = <<"AWAITING_CODE">>]
        chk == nonceCheck(q0.state, q0.cookieNonce)
        q1 == [q0 EXCEPT !.compared = chk.compared]
    IN  IF chk.reject
        THEN Respond(q1, "REJECTED_CSRF", 403, TextBody(CsrfText))
        ELSE IF q1.code = ""
        THEN Respond(q1, "REJECTED_NO_CODE", 400, TextBody(MissingCodeText))
        ELSE LET q2 == [q1 EXCEPT !.context = chk.context, !.clearNonce = TRUE,
                                       !.clearNonceOptions = clearNonceCookieOptions,
                                  !.phase = "NONCE_CHECKED",
                                  !.trace = q1.trace \o <<"NONCE_CHECKED">>]
             IN  IF hasClient
                 THEN [q2 EXCEPT !.calls = q2.calls + 1]
                 ELSE Respond([q2 EXCEPT !.err = NoApiKeyError],
                              "REJECTED_EXCHANGE_FAILED", 500,
                              errorHandler(NoApiKeyError, production))

\* a callback that starts the code exchange before it checks the nonce
callbackEntryExchangeFirst(q, hasClient, production) ==
    LET q0 == [q EXCEPT !.phase = "AWAITING_CODE", !.trace = <<"AWAITING_CODE">>] IN
    IF q0.code = ""
    THEN Respond(q0, "REJECTED_NO_CODE", 400, TextBody(MissingCodeText))
    ELSE LET chk == nonceCheck(q0.state, q0.cookieNonce)
             q1 == [q0 EXCEPT !.compared = chk.compared,
                              !.calls = IF hasClient THEN 1 ELSE 0]
         IN  IF chk.reject
             THEN Respond(q1, "REJECTED_CSRF", 403, TextBody(CsrfText))
             ELSE LET q2 == [q1 EXCEPT !.context = chk.context, !.clearNonce = TRUE,
                                       !.clearNonceOptions = clearNonceCookieOptions,
                                       !.phase = "NONCE_CHECKED",
                                       !.trace = q1.trace \o <<"NONCE_CHECKED">>]
                  IN  IF hasClient
                      THEN q2
                      ELSE Respond([q2 EXCEPT !.err = NoApiKeyError],
                                   "REJECTED_EXCHANGE_FAILED", 500,
                                   errorHandler(NoApiKeyError, production))

\* a callback that clears the nonce cookie when it rejects a mismatch
callbackEntryClearsOnReject(q, hasClient, production) ==
    LET q0 == [q EXCEPT !.phase = "AWAITING_CODE", !.trace = <<"AWAITING_CODE">>] IN
    IF q0.code = ""
    THEN Respond(q0, "REJECTED_NO_CODE", 400, TextBody(MissingCodeText))
    ELSE LET chk == nonceCheck(q0.state, q0.cookieNonce)
             q1 == [q0 EXCEPT !.compared = chk.compared, !.clearNonce = TRUE,
                              !.clearNonceOptions = clearNonceCookieOptions]
         IN  IF chk.reject
             THEN Respond(q1, "REJECTED_CSRF", 403, TextBody(CsrfText))
             ELSE LET q2 == [q1 EXCEPT !.context = chk.context,
                                       !.phase = "NONCE_CHECKED",
                                       !.trace = q1.trace \o <<"NONCE_CHECKED">>]
                  IN  IF hasClient
                      THEN [q2 EXCEPT !.calls = q2.calls + 1]
                      ELSE Respond([q2 EXCEPT !.err = NoApiKeyError],
                                   "REJECTED_EXCHANGE_FAILED", 500,
                                   errorHandler(NoApiKeyError, production))

\* GET /auth/callback from its entry to the await of the code exchange
callbackEntry(q, hasClient, production) ==
    LET q0 == [q EXCEPT !.phase = "AWAITING_CODE", !.trace = <<"AWAITING_CODE">>] IN
    IF q0.code = ""
    THEN Respond(q0, "REJECTED_NO_CODE", 400, TextBody(MissingCodeText))
    ELSE LET chk == nonceCheck(q0.state, q0.cookieNonce)
             q1 == [q0 EXCEPT !.compared = chk.compared]
         IN  IF chk.reject
             THEN Respond(q1, "REJECTED_CSRF", 403, TextBody(CsrfText))
             ELSE LET q2 == [q1 EXCEPT !.context = chk.context, !.clearNonce = TRUE,
                                       !.clearNonceOptions = clearNonceCookieOptions,
                                       !.phase = "NONCE_CHECKED",
                                       !.trace = q1.trace \o <<"NONCE_CHECKED">>]
                  IN  IF hasClient
                      THEN [q2 EXCEPT !.calls = q2.calls + 1]
                      \* getWorkOS() throws: catch, next(err), error handler
                      ELSE Respond([q2 EXCEPT !.err = NoApiKeyError],
                                   "REJECTED_EXCHANGE_FAILED", 500,
                                   errorHandler(NoApiKeyError, production))

\* a callback that sets the session cookie in the web branch only
callbackResumeCookieWebOnly(q, user, at) ==
    LET q3 == [q EXCEPT !.user = user, !.phase = "CODE_EXCHANGED",
                        !.trace = q.trace \o <<"CODE_EXCHANGED">>]
        token == signToken(user, at)
        q4 == [q3 EXCEPT !.token = token, !.phase = "TOKEN_ISSUED",
                         !.trace = q3.trace \o <<"TOKEN_ISSUED">>]
        deepLink == [scheme |-> desktopScheme, path |-> "auth/callback",
                     token |-> encodeURIComponent(token)]
    IN  IF q4.context.source = "web"
        THEN Respond([q4 EXCEPT !.setToken = token,
                         !.setTokenOptions = sessionCookieOptions(isProduction)], "RESPONSE_RENDERED", 302,
                     Redirect("/account", StateAbsent))
        ELSE Respond(q4, "RESPONSE_RENDERED", 200, desktopCallbackPage(user, deepLink))

\* a callback that renders the deep-link page unless the source is desktop
callbackResumeWebAsPage(q, user, at) ==
    LET q3 == [q EXCEPT !.user = user, !.phase = "CODE_EXCHANGED",
                        !.trace = q.trace \o <<"CODE_EXCHANGED">>]
        token == signToken(user, at)
        q4 == [q3 EXCEPT !.token = token, !.phase = "TOKEN_ISSUED",
                         !.trace = q3.trace \o <<"TOKEN_ISSUED">>]
        q5 == [q4 EXCEPT !.setToken = token,
                         !.setTokenOptions = sessionCookieOptions(isProduction)]
        deepLink == [scheme |-> desktopScheme, path |-> "auth/callback",
                     token |-> encodeURIComponent(token)]
    IN  IF q5.context.source = "desktop"
        THEN Respond(q5, "RESPONSE_RENDERED", 302, Redirect("/account", StateAbsent))
        ELSE Respond(q5, "RESPONSE_RENDERED", 200, desktopCallbackPage(user, deepLink))

\* a callback that sets the session cookie on the deep-link page only
callbackResumeCookieDesktopOnly(q, user, at) ==
    LET q3 == [q EXCEPT !.user = user, !.phase = "CODE_EXCHANGED",
                        !.trace = q.trace \o <<"CODE_EXCHANGED">>]
        token == signToken(user, at)
        q4 == [q3 EXCEPT !.token = token, !.phase = "TOKEN_ISSUED",
                         !.trace = q3.trace \o <<"TOKEN_ISSUED">>]
        q5 == [q4 EXCEPT !.setToken = token,
                         !.setTokenOptions = sessionCookieOptions(isProduction)]
        deepLink == [scheme |-> desktopScheme, path |-> "auth/callback",
                     token |-> encodeURIComponent(token)]
    IN  IF q4.context.source = "web"
        THEN Respond(q4, "RESPONSE_RENDERED", 302, Redirect("/account", StateAbsent))
        ELSE Respond(q5, "RESPONSE_RENDERED", 200, desktopCallbackPage(user, deepLink))

\* a callback that hands the device_id of the state on in the deep link
callbackResumeDeviceInLink(q, user, at) ==
    LET q3 == [q EXCEPT !.user = user, !.phase = "CODE_EXCHANGED",
                        !.trace = q.trace \o <<"CODE_EXCHANGED">>]
        token == signToken(user, at)
        q4 == [q3 EXCEPT !.token = token, !.phase = "TOKEN_ISSUED",
                         !.trace = q3.trace \o <<"TOKEN_ISSUED">>]
        q5 == [q4 EXCEPT !.setToken = token,
                         !.setTokenOptions = sessionCookieOptions(isProduction)]
        deepLink == [scheme |-> desktopScheme,
                     path |-> IF q.context.device_id = "" THEN "auth/callback"
                              ELSE "auth/callback/device",
                     token |-> encodeURIComponent(token)]
    IN  IF q5.context.source = "web"
        THEN Respond(q5, "RESPONSE_RENDERED", 302, Redirect("/account", StateAbsent))
        ELSE Respond(q5, "RESPONSE_RENDERED", 200, desktopCallbackPage(user, deepLink))

\* the callback after authenticateWithCode has returned a user
callbackResume(q, user, at) ==
    LET q3 == [q EXCEPT !.user = user, !.phase = "CODE_EXCHANGED",
                        !.trace = q.trace \o <<"CODE_EXCHANGED">>]
        token == signToken(user, at)
        q4 == [q3 EXCEPT !.token = token, !.phase = "TOKEN_ISSUED",
                         !.trace = q3.trace \o <<"TOKEN_ISSUED">>]
        q5 == [q4 EXCEPT !.setToken = token,
                         !.setTokenOptions = sessionCookieOptions(isProduction)]
        deepLink == [scheme |-> desktopScheme, path |-> "auth/callback",
                     token |-> encodeURIComponent(token)]
    IN  IF q5.context.source = "web"
        THEN Respond(q5, "RESPONSE_RENDERED", 302, Redirect("/account", StateAbsent))
        ELSE Respond(q5, "RESPONSE_RENDERED", 200, desktopCallbackPage(user, deepLink))

\* a failed callback whose 500 response does not carry the cleared nonce cookie
callbackFailKeepsNonce(q, message, production) ==
    Respond([q EXCEPT !.err = message, !.clearNonce = FALSE], "REJECTED_EXCHANGE_FAILED",
            500, errorHandler(message, production))

\* a failed callback that also ends the session of the browser
callbackFailEndsSession(q, message, production) ==
    Respond([q EXCEPT !.err = message, !.clearToken = TRUE], "REJECTED_EXCHANGE_FAILED",
            500, errorHandler(message, production))

\* the callback after authenticateWithCode has thrown
callbackFail(q, message, production) ==
    Respond([q EXCEPT !.err = message], "REJECTED_EXCHANGE_FAILED", 500,
            errorHandler(message, production))

\* a login that redirects to the provider whether or not the client was built
loginHandlerRedirectsBlind(q, nonce, device_id, source, hasClient, production) ==
    LET statePayload == [n |-> nonce, device_id |-> device_id,
                         source |-> IF source # "" THEN source ELSE "desktop"]
        state == JSONstringify(statePayload)
        q1 == [q EXCEPT !.setNonce = nonce, !.setNonceOptions = nonceCookieOptions(production),
                        !.query = [device_id |-> device_id, source |-> source]]
    IN  Respond(q1, "LOGIN_REDIRECTED", 302, Redirect("provider", state))

\* a login that keeps the nonce of a flow the browser has already started
loginHandlerKeepsNonce(q, nonce, device_id, source, hasClient, production) ==
    LET kept == IF q.cookieNonce # 0 THEN q.cookieNonce ELSE nonce
        statePayload == [n |-> kept, device_id |-> device_id,
                         source |-> IF source # "" THEN source ELSE "desktop"]
        state == JSONstringify(statePayload)
        q1 == [q EXCEPT !.setNonce = kept, !.setNonceOptions = nonceCookieOptions(production),
                        !.query = [device_id |-> device_id, source |-> source]]
    IN  IF hasClient
        THEN Respond(q1, "LOGIN_REDIRECTED", 302, Redirect("provider", state))
        ELSE Respond([q1 EXCEPT !.err = NoApiKeyError], "LOGIN_FAILED", 500,
                     errorHandler(NoApiKeyError, production))

\* GET /auth/login
loginHandler(q, nonce, device_id, source, hasClient, production) ==
    LET statePayload == [n |-> nonce, device_id |-> device_id,
                         source |-> IF source # "" THEN source ELSE "desktop"]
        state == JSONstringify(statePayload)
        q1 == [q EXCEPT !.setNonce = nonce, !.setNonceOptions = nonceCookieOptions(production),
                        !.query = [device_id |-> device_id, source |-> source]]
    IN  IF hasClient
        THEN Respond(q1, "LOGIN_REDIRECTED", 302, Redirect("provider", state))
        ELSE Respond([q1 EXCEPT !.err = NoApiKeyError], "LOGIN_FAILED", 500,
                     errorHandler(NoApiKeyError, production))

\* ------------------------------------------------------ session routes
\* a request of the session routes as it arrives
ArrivedSession(route, client, method, auth, cookieToken) ==
    [Idle EXCEPT !.route = route, !.client = client, !.method = method, !.auth = auth,
                 !.cookieToken = cookieToken]

MissingTokenText == <<"Missing token">>
InvalidTokenText == <<"Invalid or expired token">>
InfoPageText == <<"Sign in is available when the server is connected to WorkOS.">>
DesklyUserText == <<"Deskly User">>

\* res.status(401).json({ error })
JsonError(text) == [NoBody EXCEPT !.kind = "json", !.text = text]

\* res.json({ user })
JsonUser(claims) == [NoBody EXCEPT !.kind = "json", !.claims = claims]

\* String.prototype.toUpperCase on one character
toUpperCase(ch) ==
    CASE ch = "a" -> "A"
      [] ch = "c" -> "C"
      [] ch = "s" -> "S"
      [] ch = "u" -> "U"
      [] OTHER -> ch

\* the account view of the verified claims
accountPage(user) ==
    [NoBody EXCEPT
        !.kind = "accountPage",
        !.picture = IF Truthy(user.picture) THEN esc(user.picture) ELSE <<>>,
        !.avatar = IF Truthy(user.picture) THEN <<>>
                   ELSE esc(IF Truthy(user.name) THEN <<toUpperCase(Head(user.name))>>
                            ELSE <<"?">>),
        !.displayName = esc(IF Truthy(user.name) THEN user.name ELSE DesklyUserText),
        !.email = esc(user.email),
        !.userId = esc(user.sub)]

\* an /api/me that accepts a Bearer token only next to a live session cookie
meHandlerNeedsSession(q, at) ==
    LET token == IF q.auth.scheme = "Bearer" THEN q.auth.token
                 ELSE IF q.cookieToken.kind # "none" THEN q.cookieToken
                 ELSE NoToken
    IN  IF token.kind = "none"
        THEN Respond(q, "ME_UNAUTHORIZED", 401, JsonError(MissingTokenText))
        ELSE LET v == verifyToken(token, at)
                 q1 == [q EXCEPT !.examined = token]
             IN  IF ~v.ok \/ q.cookieToken.kind = "none"
                 THEN Respond(q1, "ME_UNAUTHORIZED", 401, JsonError(InvalidTokenText))
                 ELSE Respond(q1, "ME_OK", 200, JsonUser(v.claims))

\* an /api/me that decodes the token without verifying it
meHandlerDecodeOnly(q, at) ==
    LET token == IF q.auth.scheme = "Bearer" THEN q.auth.token
                 ELSE IF q.cookieToken.kind # "none" THEN q.cookieToken
                 ELSE NoToken
    IN  IF token.kind = "none"
        THEN Respond(q, "ME_UNAUTHORIZED", 401, JsonError(MissingTokenText))
        ELSE LET q1 == [q EXCEPT !.examined = token]
             IN  IF token.kind # "jwt"
                 THEN Respond(q1, "ME_UNAUTHORIZED", 401, JsonError(InvalidTokenText))
                 ELSE Respond(q1, "ME_OK", 200,
                              JsonUser([sub |-> token.sub, email |-> token.email,
                                        name |-> token.name, picture |-> token.picture,
                                        iat |-> token.iat, exp |-> token.exp]))

\* an /api/me that turns to the session cookie when the bearer token is
\* empty or fails verification
meHandlerCookieFallback(q, at) ==
    LET bearer == IF q.auth.scheme = "Bearer" THEN q.auth.token ELSE NoToken
        token == IF bearer.kind # "none" /\ verifyToken(bearer, at).ok THEN bearer
                 ELSE IF q.cookieToken.kind # "none" THEN q.cookieToken
                 ELSE bearer
    IN  IF token.kind = "none"
        THEN Respond(q, "ME_UNAUTHORIZED", 401, JsonError(MissingTokenText))
        ELSE LET v == verifyToken(token, at)
                 q1 == [q EXCEPT !.examined = token]
             IN  IF ~v.ok
                 THEN Respond(q1, "ME_UNAUTHORIZED", 401, JsonError(InvalidTokenText))
                 ELSE Respond(q1, "ME_OK", 200, JsonUser(v.claims))

\* GET /api/me
meHandler(q, at) ==
    LET token == IF q.auth.scheme = "Bearer" THEN q.auth.token
                 ELSE IF q.cookieToken.kind # "none" THEN q.cookieToken
                 ELSE NoToken
    IN  IF token.kind = "none"
        THEN Respond(q, "ME_UNAUTHORIZED", 401, JsonError(MissingTokenText))
        ELSE LET v == verifyToken(token, at)
                 q1 == [q EXCEPT !.examined = token]
             IN  IF ~v.ok
                 THEN Respond(q1, "ME_UNAUTHORIZED", 401, JsonError(InvalidTokenText))
                 ELSE Respond(q1, "ME_OK", 200, JsonUser(v.claims))

\* an /account that renders whatever claims the cookie holds
accountHandlerTrustsCookie(q, hasClient, at) ==
    IF ~hasClient
    THEN Respond(q, "ACCOUNT_INFO", 200, TextBody(InfoPageText))
    ELSE LET token == q.cookieToken
             q1 == [q EXCEPT !.examined = token]
         IN  IF token.kind # "jwt"
             THEN Respond(q1, "ACCOUNT_REDIRECT", 302,
                          Redirect("/auth/login?source=web", StateAbsent))
             ELSE Respond(q1, "ACCOUNT_PAGE", 200,
                          accountPage([sub |-> token.sub, email |-> token.email,
                                       name |-> token.name, picture |-> token.picture,
                                       iat |-> token.iat, exp |-> token.exp]))

\* GET /account
accountHandler(q, hasClient, at) ==
    IF ~hasClient
    THEN Respond(q, "ACCOUNT_INFO", 200, TextBody(InfoPageText))
    ELSE LET token == q.cookieToken
             v == IF token.kind # "none" THEN verifyToken(token, at)
                  ELSE [ok |-> FALSE, claims |-> NoClaims]
             q1 == [q EXCEPT !.examined = token]
         IN  IF ~v.ok
             THEN Respond(q1, "ACCOUNT_REDIRECT", 302,
                          Redirect("/auth/login?source=web", StateAbsent))
             ELSE Respond(q1, "ACCOUNT_PAGE", 200, accountPage(v.claims))

\* a logout that redirects home and leaves the session cookie
logoutHandlerKeepsCookie(q) ==
    Respond(q, "LOGGED_OUT", 302, Redirect("/", StateAbsent))

\* GET and POST /auth/logout
logoutHandler(q) ==
    Respond([q EXCEPT !.clearToken = TRUE], "LOGGED_OUT", 302, Redirect("/", StateAbsent))

\* ------------------------------------------- the second copy of the server
\* src/server.js holds the server twice; the definitions named Legacy are
\* those of the second copy (from line 481 on) that differ from the first

\* the second copy falls back to the built-in key in every mode and goes on
startsUpLegacy(secret, production) == TRUE

\* the options of the second copy's res.cookie('deskly_token', ...): secure is
\* baseUrl.startsWith('https'), and with BASE_URL unset baseUrl is
\* http://localhost:<port>
sessionCookieOptionsLegacy ==
    [httpOnly |-> TRUE, secure |-> FALSE, sameSite |-> "lax",
     maxAge |-> 30 * 24 * 60 * 60, path |-> "/"]

TypeErrorText == <<"Cannot read properties of null (reading 'source')">>

\* the error-handling middleware of the second copy
errorHandlerLegacy(message) ==
    Body("error", IF Truthy(message) THEN message ELSE UnknownErrorText,
         <<>>, <<>>, NoLink, "", StateAbsent)

\* the deep-link page of the second copy
desktopCallbackPageLegacy(user, deepLink) ==
    Body("desktopPage", <<>>,
         IF Truthy(user.firstName) THEN displayNameOf(user) ELSE user.email,
         user.email, deepLink, "", StateAbsent)

\* the account view of the second copy
accountPageLegacy(user) ==
    [NoBody EXCEPT
        !.kind = "accountPage",
        !.picture = IF Truthy(user.picture) THEN user.picture ELSE <<>>,
        !.avatar = IF Truthy(user.picture) THEN <<>>
                   ELSE IF Truthy(user.name) THEN <<toUpperCase(Head(user.name))>>
                   ELSE <<"?">>,
        !.displayName = IF Truthy(user.name) THEN user.name ELSE DesklyUserText,
        !.email = user.email,
        !.userId = user.sub]

\* GET /auth/login of the second copy: no nonce, no cookie
loginHandlerLegacy(q, device_id, source, hasClient) ==
    LET state == stateText("object", 0, IF source # "" THEN source ELSE "desktop",
                           device_id)
        q1 == [q EXCEPT !.query = [device_id |-> device_id, source |-> source]]
    IN  IF hasClient
        THEN Respond(q1, "LOGIN_REDIRECTED", 302, Redirect("provider", state))
        ELSE Respond([q1 EXCEPT !.err = NoApiKeyError], "LOGIN_FAILED", 500,
                     errorHandlerLegacy(NoApiKeyError))

\* GET /auth/callback of the second copy up to the await of the code exchange
callbackEntryLegacy(q, hasClient) ==
    LET q0 == [q EXCEPT !.phase = "AWAITING_CODE", !.trace = <<"AWAITING_CODE">>] IN
    IF q0.code = ""
    THEN Respond(q0, "REJECTED_NO_CODE", 400, TextBody(MissingCodeText))
    ELSE IF hasClient
    THEN [q0 EXCEPT !.calls = q0.calls + 1, !.phase = "EXCHANGING",
                    !.trace = q0.trace \o <<"EXCHANGING">>]
    ELSE Respond([q0 EXCEPT !.err = NoApiKeyError], "REJECTED_EXCHANGE_FAILED", 500,
                 errorHandlerLegacy(NoApiKeyError))

\* the callback of the second copy after authenticateWithCode has returned
callbackResumeLegacy(q, user, at) ==
    LET q3 == [q EXCEPT !.user = user, !.phase = "CODE_EXCHANGED",
                        !.trace = q.trace \o <<"CODE_EXCHANGED">>]
        token == signToken(user, at)
        q4 == [q3 EXCEPT !.token = token, !.phase = "TOKEN_ISSUED",
                         !.trace = q3.trace \o <<"TOKEN_ISSUED">>]
        parsed == JSONparse(q.state)
        \* context = JSON.parse(state): the whole value, whatever it is
        context == IF q.state.kind = "absent" \/ parsed.threw THEN DefaultContext
                   ELSE [source |-> parsed.value.source,
                         device_id |-> parsed.value.device_id]
        q5 == [q4 EXCEPT !.context = context, !.setToken = token,
                         !.setTokenOptions = sessionCookieOptionsLegacy]
        deepLink == [scheme |-> desktopScheme, path |-> "auth/callback",
                     token |-> encodeURIComponent(token)]
    IN  IF q.state.kind = "null"
        \* context.source throws a TypeError after res.cookie
        THEN Respond([q5 EXCEPT !.err = TypeErrorText], "FAILED_AFTER_EXCHANGE", 500,
                     errorHandlerLegacy(TypeErrorText))
        ELSE IF context.source = "web"
        THEN Respond(q5, "RESPONSE_RENDERED", 302, Redirect("/account", StateAbsent))
        ELSE Respond(q5, "RESPONSE_RENDERED", 200,
                     desktopCallbackPageLegacy(user, deepLink))

\* the callback of the second copy after authenticateWithCode has thrown
callbackFailLegacy(q, message) ==
    Respond([q EXCEPT !.err = message], "REJECTED_EXCHANGE_FAILED", 500,
            errorHandlerLegacy(message))

\* GET /account of the second copy
accountHandlerLegacy(q, hasClient, at) ==
    IF ~hasClient
    THEN Respond(q, "ACCOUNT_INFO", 200, TextBody(InfoPageText))
    ELSE LET token == q.cookieToken
             v == IF token.kind # "none" THEN verifyToken(token, at)
                  ELSE [ok |-> FALSE, claims |-> NoClaims]
             q1 == [q EXCEPT !.examined = token]
         IN  IF ~v.ok
             THEN Respond(q1, "ACCOUNT_REDIRECT", 302,
                          Redirect("/auth/login?source=web", StateAbsent))
             ELSE Respond(q1, "ACCOUNT_PAGE", 200, accountPageLegacy(v.claims))

\* ------------------------------------------------------------ cookie jars
\* what a client keeps: the two cookies of its browser and the token its
\* desktop application has read from the deep link
EmptyJar == [oauth_nonce |-> 0, deskly_token |-> NoToken, deep_link_token |-> NoToken]

\* the path the browser stored the nonce cookie under; a clearing header
\* removes the cookie only when it names the same path
NonceCookiePath == nonceCookieOptions(FALSE).path

\* the browser applies the Set-Cookie headers of the response to q and, on
\* the deep-link page, follows the link, which hands the token to the desktop
\* application
applyCookies(j, q) ==
    [oauth_nonce |-> IF q.setNonce # 0 THEN q.setNonce
                     ELSE IF q.clearNonce /\ q.clearNonceOptions.path = NonceCookiePath
                              THEN 0 ELSE j.oauth_nonce,
     deskly_token |-> IF q.setToken.kind # "none" THEN q.setToken
                      ELSE IF q.clearToken THEN NoToken ELSE j.deskly_token,
     deep_link_token |-> IF q.body.kind = "desktopPage"
                         THEN decodeURIComponent(q.body.deepLink.token)
                         ELSE j.deep_link_token]

\* ------------------------------------------------------------ the process
\* whether the process comes up: in production it exits without a secret
startsUp(secret, production) == ~(secret = "" /\ production)

Init ==
    /\ isProduction \in BOOLEAN
    /\ configured \in BOOLEAN
    /\ jwtSecret \in Secrets
    /\ up = startsUp(jwtSecret, isProduction)
    /\ now = 0
    /\ nonces = 0
    /\ jar = [c \in Clients |-> EmptyJar]
    /\ req = [r \in ReqIds |-> Idle]
    /\ resp = Idle

\* the slot a new request takes: the first one that is idle
FirstIdle(r) == req[r] = Idle /\ \A k \in ReqIds : k < r => req[k] # Idle

\* the process is up and no answer is on its way
Quiet == up /\ resp = Idle

\* a browser requests GET /auth/login and takes the answer
Login(c, device_id, source) ==
    /\ Quiet
    /\ nonces < MaxNonces
    /\ LET q == loginHandler(Arrived("login", c, "", StateAbsent, jar[c].oauth_nonce),
                             nonces + 1, device_id, source, configured, isProduction)
       IN  /\ resp' = q
           /\ jar' = [jar EXCEPT ![c] = applyCookies(jar[c], q)]
    /\ nonces' = nonces + 1
    /\ UNCHANGED <<env, now, req>>

\* a callback that compares the state with the nonce of the login served
\* last, kept in the server, instead of the nonce cookie of the request
CallbackSharedNonce(r, c, code, state) ==
    /\ Quiet
    /\ FirstIdle(r)
    /\ LET q == callbackEntry(Arrived("callback", c, code, state, nonces),
                              configured, isProduction)
       IN  IF q.phase \in Terminal
           THEN /\ resp' = q
                /\ jar' = [jar EXCEPT ![c] = applyCookies(jar[c], q)]
                /\ req' = req
           ELSE /\ req' = [req EXCEPT ![r] = q]
                /\ UNCHANGED <<jar, resp>>
    /\ UNCHANGED <<env, now, nonces>>

\* a browser requests GET /auth/callback; the handler runs to its first
\* response or to the await of the code exchange
Callback(r, c, code, state) ==
    /\ Quiet
    /\ FirstIdle(r)
    /\ LET q == callbackEntry(Arrived("callback", c, code, state, jar[c].oauth_nonce),
                              configured, isProduction)
       IN  IF q.phase \in Terminal
           THEN /\ resp' = q
                /\ jar' = [jar EXCEPT ![c] = applyCookies(jar[c], q)]
                /\ req' = req
           ELSE /\ req' = [req EXCEPT ![r] = q]
                /\ UNCHANGED <<jar, resp>>
    /\ UNCHANGED <<env, now, nonces>>

\* authenticateWithCode resolves with a user
ExchangeSucceeds(r, user) ==
    /\ Quiet
    /\ req[r].phase = "NONCE_CHECKED"
    /\ LET q == callbackResume(req[r], user, now)
       IN  /\ resp' = q
           /\ jar' = [jar EXCEPT ![q.client] = applyCookies(jar[q.client], q)]
    /\ req' = [req EXCEPT ![r] = Idle]
    /\ UNCHANGED <<env, now, nonces>>

\* authenticateWithCode rejects
ExchangeFails(r, message) ==
    /\ Quiet
    /\ req[r].phase = "NONCE_CHECKED"
    /\ LET q == callbackFail(req[r], message, isProduction)
       IN  /\ resp' = q
           /\ jar' = [jar EXCEPT ![q.client] = applyCookies(jar[q.client], q)]
    /\ req' = [req EXCEPT ![r] = Idle]
    /\ UNCHANGED <<env, now, nonces>>

\* the exchange is over: the server keeps nothing of an answered request
Settle ==
    /\ resp # Idle
    /\ resp' = Idle
    /\ UNCHANGED <<env, now, nonces, jar, req>>

\* the nonce cookie reaches its max-age in the browser
NonceCookieExpires(c) ==
    /\ Quiet
    /\ jar[c].oauth_nonce # 0
    /\ jar' = [jar EXCEPT ![c].oauth_nonce = 0]
    /\ UNCHANGED <<env, now, nonces, req, resp>>

\* a clock that gives up on the requests that wait for the provider
TickTimesOut ==
    /\ Quiet
    /\ now + TickDays <= MaxClock
    /\ now' = now + TickDays
    /\ req' = [r \in ReqIds |-> Idle]
    /\ UNCHANGED <<env, nonces, jar, resp>>

Tick ==
    /\ Quiet
    /\ now + TickDays <= MaxClock
    /\ now' = now + TickDays
    /\ UNCHANGED <<env, nonces, jar, req, resp>>

\* a text that is no JWT
GarbageToken == [NoToken EXCEPT !.kind = "garbage", !.chars = "reserved"]

\* the keys a token may be signed with: the server's, past or present, or another
Keys == {DefaultSecret, "k1", "k2", "attacker"}

\* the token texts a client may present besides the one in its cookie jar:
\* none, garbage, and tokens signed at the start or just now under any key
TokenTexts ==
    {NoToken, GarbageToken}
    \cup { [signToken(u, t) EXCEPT !.key = k] : u \in Users, t \in {0, now}, k \in Keys }

\* the Authorization headers a client may send, given the texts it makes up
AuthHeaders(c, forged) ==
    {NoAuth, BasicAuth}
    \cup { Bearer(t) : t \in forged \cup {jar[c].deskly_token, jar[c].deep_link_token} }

\* the deskly_token cookies a client may send: its jar's or one it made up
CookieTokens(c, forged) == {jar[c].deskly_token} \cup forged

\* a client requests GET /api/me
ApiMe(c, auth, cookie) ==
    /\ Quiet
    /\ LET q == meHandler(ArrivedSession("me", c, "GET", auth, cookie), now)
       IN  /\ resp' = q
           /\ jar' = [jar EXCEPT ![c] = applyCookies(jar[c], q)]
    /\ UNCHANGED <<env, now, nonces, req>>

\* a browser requests GET /account
Account(c, cookie) ==
    /\ Quiet
    /\ LET q == accountHandler(ArrivedSession("account", c, "GET", NoAuth, cookie),
                               configured, now)
       IN  /\ resp' = q
           /\ jar' = [jar EXCEPT ![c] = applyCookies(jar[c], q)]
    /\ UNCHANGED <<env, now, nonces, req>>

\* a browser requests GET or POST /auth/logout
Logout(c, method) ==
    /\ Quiet
    /\ LET q == logoutHandler(ArrivedSession("logout", c, method, NoAuth,
                                             jar[c].deskly_token))
       IN  /\ resp' = q
           /\ jar' = [jar EXCEPT ![c] = applyCookies(jar[c], q)]
    /\ UNCHANGED <<env, now, nonces, req>>

\* the process is started again with another JWT_SECRET; the requests in
\* flight are lost
Restart(secret) ==
    /\ resp = Idle
    /\ secret # jwtSecret
    /\ jwtSecret' = secret
    /\ up' = startsUp(secret, isProduction)
    /\ req' = [r \in ReqIds |-> Idle]
    /\ UNCHANGED <<isProduction, configured, now, nonces, jar, resp>>

\* ---- the second copy of the server
InitLegacy ==
    /\ isProduction \in BOOLEAN
    /\ configured \in BOOLEAN
    /\ jwtSecret \in Secrets
    /\ up = startsUpLegacy(jwtSecret, isProduction)
    /\ now = 0
    /\ nonces = 0
    /\ jar = [c \in Clients |-> EmptyJar]
    /\ req = [r \in ReqIds |-> Idle]
    /\ resp = Idle

LoginLegacy(c, device_id, source) ==
    /\ Quiet
    /\ LET q == loginHandlerLegacy(Arrived("login", c, "", StateAbsent, 0),
                                   device_id, source, configured)
       IN  /\ resp' = q
           /\ jar' = [jar EXCEPT ![c] = applyCookies(jar[c], q)]
    /\ UNCHANGED <<env, now, nonces, req>>

CallbackLegacy(r, c, code, state) ==
    /\ Quiet
    /\ FirstIdle(r)
    /\ LET q == callbackEntryLegacy(Arrived("callback", c, code, state, 0), configured)
       IN  IF q.phase # "EXCHANGING"
           THEN /\ resp' = q
                /\ jar' = [jar EXCEPT ![c] = applyCookies(jar[c], q)]
                /\ req' = req
           ELSE /\ req' = [req EXCEPT ![r] = q]
                /\ UNCHANGED <<jar, resp>>
    /\ UNCHANGED <<env, now, nonces>>

ExchangeSucceedsLegacy(r, user) ==
    /\ Quiet
    /\ req[r].phase = "EXCHANGING"
    /\ LET q == callbackResumeLegacy(req[r], user, now)
       IN  /\ resp' = q
           /\ jar' = [jar EXCEPT ![q.client] = applyCookies(jar[q.client], q)]
    /\ req' = [req EXCEPT ![r] = Idle]
    /\ UNCHANGED <<env, now, nonces>>

ExchangeFailsLegacy(r, message) ==
    /\ Quiet
    /\ req[r].phase = "EXCHANGING"
    /\ LET q == callbackFailLegacy(req[r], message)
       IN  /\ resp' = q
           /\ jar' = [jar EXCEPT ![q.client] = applyCookies(jar[q.client], q)]
    /\ req' = [req EXCEPT ![r] = Idle]
    /\ UNCHANGED <<env, now, nonces>>

AccountLegacy(c) ==
    /\ Quiet
    /\ LET q == accountHandlerLegacy(ArrivedSession("account", c, "GET", NoAuth,
                                                    jar[c].deskly_token),
                                     configured, now)
       IN  /\ resp' = q
           /\ jar' = [jar EXCEPT ![c] = applyCookies(jar[c], q)]
    /\ UNCHANGED <<env, now, nonces, req>>

\* the state texts a callback of the second copy may carry
LegacyTexts ==
    {StateAbsent, StateGarbage, StateJsonNull, StateJsonScalar}
    \cup { stateText("object", 0, s, d) : s \in {"", "web", "desktop"}, d \in DeviceIds }

NextLegacy ==
    \/ \E d \in DeviceIds, s \in Sources : LoginLegacy("b1", d, s)
    \/ \E code \in Codes, st \in LegacyTexts : CallbackLegacy(1, "b1", code, st)
    \/ \E u \in Users : ExchangeSucceedsLegacy(1, u)
    \/ \E m \in ProviderErrors : ExchangeFailsLegacy(1, m)
    \/ AccountLegacy("b1")
    \/ \E a \in {NoAuth, Bearer(jar["b1"].deskly_token)} :
          ApiMe("b1", a, jar["b1"].deskly_token)
    \/ Logout("b1", "GET")
    \/ Settle
    \/ Tick

SpecLegacy == InitLegacy /\ [][NextLegacy]_vars

\* the steps of the browsers cs, the request slots rs and the state texts sts
Step(cs, rs, sts) ==
    \/ \E c \in cs, d \in DeviceIds, s \in Sources : Login(c, d, s)
    \/ \E r \in rs, c \in cs, code \in Codes, st \in sts : Callback(r, c, code, st)
    \/ \E r \in rs, u \in Users : ExchangeSucceeds(r, u)
    \/ \E r \in rs, m \in ProviderErrors : ExchangeFails(r, m)
    \/ Settle
    \/ \E c \in cs : NonceCookieExpires(c)
    \/ Tick

\* one browser, one callback in flight at a time, every state text
Next == Step({"b1"}, {1}, StateTexts)

Spec == Init /\ [][Next]_vars

\* the state texts of the flows /auth/login starts, and none
FlowTexts ==
    {StateAbsent}
    \cup { stateText("object", n, s, "") : n \in 1..MaxNonces, s \in {"web", "desktop"} }

RotatedSecrets == Secrets \cup {"k2"}

\* the state texts of the web flows /auth/login starts
WebTexts == { stateText("object", n, "web", "") : n \in 1..MaxNonces }

\* two browsers and two callbacks in flight, in every interleaving of their
\* web flows
NextTwo ==
    \/ \E c \in Clients : Login(c, "", "web")
    \/ \E r \in ReqIds, c \in Clients, code \in Codes, st \in WebTexts :
          Callback(r, c, code, st)
    \/ \E r \in ReqIds, u \in Users : ExchangeSucceeds(r, u)
    \/ \E r \in ReqIds, m \in ProviderErrors : ExchangeFails(r, m)
    \/ Settle
    \/ \E c \in Clients : NonceCookieExpires(c)
    \/ Tick

SpecTwo == Init /\ [][NextTwo]_vars

\* one browser with two callbacks in flight: the flows it starts one after
\* the other, their callbacks in every order
NextOverlap ==
    \/ \E s \in {"web", "desktop"} : Login("b1", "", s)
    \/ \E r \in ReqIds, code \in Codes, st \in FlowTexts \ {StateAbsent} :
          Callback(r, "b1", code, st)
    \/ \E r \in ReqIds, u \in Users : ExchangeSucceeds(r, u)
    \/ \E r \in ReqIds, m \in ProviderErrors : ExchangeFails(r, m)
    \/ Settle

SpecOverlap == Init /\ [][NextOverlap]_vars

\* authenticateWithCode of the request in slot r settles, one way or the other
ProviderAnswers(r) ==
    \/ \E u \in Users : ExchangeSucceeds(r, u)
    \/ \E m \in ProviderErrors : ExchangeFails(r, m)

\* one browser, two callbacks in flight and the clock, with a provider that
\* answers every exchange in the end and a server that sends every answer it
\* has produced.  The answer of the provider is strongly fair because the
\* model takes it only between two other requests, which may arrive for ever.
NextLive ==
    \/ Login("b1", "", "web")
    \/ \E r \in ReqIds, code \in Codes, st \in WebTexts : Callback(r, "b1", code, st)
    \/ \E r \in ReqIds : ProviderAnswers(r)
    \/ Settle
    \/ Tick

SpecLive ==
    /\ Init /\ [][NextLive]_vars
    /\ WF_vars(Settle)
    /\ \A r \in ReqIds : SF_vars(ProviderAnswers(r))

\* the session routes of the browsers cs, which may make up the texts forged,
\* and the restarts
SessionStep(cs, forged) ==
    \/ \E c \in cs : \E a \in AuthHeaders(c, forged), k \in CookieTokens(c, forged) :
          ApiMe(c, a, k)
    \/ \E c \in cs : \E k \in CookieTokens(c, forged) : Account(c, k)
    \/ \E c \in cs, m \in {"GET", "POST"} : Logout(c, m)
    \/ \E s \in RotatedSecrets : Restart(s)

\* one browser: its login flows, the session they give it and the restarts
NextSession == Step({"b1"}, {1}, FlowTexts) \/ SessionStep({"b1"}, {GarbageToken})

SpecSession == Init /\ [][NextSession]_vars

\* one client that presents any token text, as header or cookie
NextTokens == SessionStep({"b1"}, TokenTexts) \/ Settle \/ Tick

SpecTokens == Init /\ [][NextTokens]_vars

\* ================================================================ claims
\* the requests the server has in hand or has just answered
Seen == {req[r] : r \in ReqIds} \cup {resp}

Callbacks == {q \in Seen : q.route = "callback"}

Reached(q, phase) == \E i \in DOMAIN q.trace : q.trace[i] = phase

\* position of a phase in the trace of q, 0 when it is not there
Pos(q, phase) ==
    IF Reached(q, phase) THEN CHOOSE i \in DOMAIN q.trace : q.trace[i] = phase ELSE 0

\* text holds part as a run of consecutive elements
Contains(text, part) ==
    \E i \in 0..(Len(text) - Len(part)) : SubSeq(text, i + 1, i + Len(part)) = part

CarriesNonce(q) == q.state.kind = "object" /\ q.state.n # 0

\* C1: every callback that reaches the provider code exchange (and so every
\* one that issues a token or sets the session cookie) carried a state whose
\* nonce equals the oauth_nonce cookie of that same request.
C1_ExchangeOnlyWithMatchingNonce ==
    \A q \in Callbacks :
        (Reached(q, "NONCE_CHECKED") \/ q.calls > 0 \/ q.token # NoToken
         \/ q.setToken # NoToken)
        => CarriesNonce(q) /\ q.state.n = q.cookieNonce

\* C2: a callback with a code and a state that carries a nonce is answered 403
\* (REJECTED_CSRF) whenever the nonce cookie is absent or differs from the
\* state's nonce; no provider call, no token, no session cookie.
C2_MismatchIsRejected ==
    \A q \in Callbacks :
        (q.code # "" /\ CarriesNonce(q) /\ q.cookieNonce # q.state.n)
        => /\ q = resp
           /\ q.phase = "REJECTED_CSRF"
           /\ q.status = 403
           /\ q.calls = 0
           /\ q.user = NoUser
           /\ q.token = NoToken
           /\ q.setToken = NoToken

C2_Witness ==
    /\ resp.route = "callback" /\ resp.code # "" /\ CarriesNonce(resp)
    /\ resp.cookieNonce # 0 /\ resp.cookieNonce # resp.state.n
    /\ resp.phase = "REJECTED_CSRF"

\* C3: a callback without a code ends in REJECTED_NO_CODE (400) before the
\* nonce is examined and before any provider call, whatever state and cookies
\* it carries.
C3_NoCodeIsRejectedFirst ==
    \A q \in Callbacks :
        q.code = ""
        => /\ q = resp
           /\ q.trace = <<"AWAITING_CODE", "REJECTED_NO_CODE">>
           /\ q.status = 400
           /\ ~q.compared
           /\ ~q.clearNonce
           /\ q.calls = 0

C3_Witness ==
    /\ resp.route = "callback" /\ resp.code = ""
    /\ CarriesNonce(resp) /\ resp.cookieNonce # 0 /\ resp.cookieNonce # resp.state.n
    /\ resp.phase = "REJECTED_NO_CODE"

\* C4: every callback that compares the state's nonce with the cookie clears
\* the nonce cookie, match or mismatch: once it is answered, the browser holds
\* no nonce cookie.
C4_ComparedNonceIsCleared ==
    (resp.route = "callback" /\ resp.compared) => jar[resp.client].oauth_nonce = 0

\* C5: a callback with a code whose state is missing or is not JSON is not
\* rejected as CSRF: it goes on to the code exchange with the default
\* context, with or without a nonce cookie.
C5_MissingStateIsNotCsrf ==
    \A q \in Callbacks :
        (q.code # "" /\ q.state.kind \in {"absent", "garbage"})
        => /\ q.phase # "REJECTED_CSRF"
           /\ q.status # 403
           /\ Reached(q, "NONCE_CHECKED")
           /\ q.context = DefaultContext
           /\ (configured => q.calls = 1)

C5_Witness ==
    /\ req[1].route = "callback" /\ req[1].state.kind = "garbage"
    /\ req[1].cookieNonce # 0 /\ req[1].calls = 1

\* the traces a callback can show: one in flight waits in NONCE_CHECKED, an
\* answered one has ended in exactly one terminal state
CallbackTraces ==
    { <<"AWAITING_CODE", "REJECTED_NO_CODE">>,
      <<"AWAITING_CODE", "REJECTED_CSRF">>,
      <<"AWAITING_CODE", "NONCE_CHECKED">>,
      <<"AWAITING_CODE", "NONCE_CHECKED", "REJECTED_EXCHANGE_FAILED">>,
      <<"AWAITING_CODE", "NONCE_CHECKED", "CODE_EXCHANGED", "TOKEN_ISSUED",
        "RESPONSE_RENDERED">> }

C6_Order(q) ==
    /\ q.trace \in CallbackTraces
    /\ q.phase = q.trace[Len(q.trace)]
    /\ (q = resp) = (q.phase \in Terminal)
    /\ Cardinality({i \in DOMAIN q.trace : q.trace[i] \in Terminal})
           = (IF q = resp THEN 1 ELSE 0)
    /\ q.calls <= 1
    /\ q.calls = 1 => q.code # "" /\ Reached(q, "NONCE_CHECKED")
    /\ Reached(q, "CODE_EXCHANGED") => q.calls = 1 /\ q.user \in Users
    /\ q.token # NoToken
          => /\ q.calls = 1 /\ q.user \in Users /\ q.err = Null
             /\ 0 < Pos(q, "CODE_EXCHANGED")
             /\ Pos(q, "CODE_EXCHANGED") < Pos(q, "TOKEN_ISSUED")
    /\ (q.token # NoToken) = Reached(q, "TOKEN_ISSUED")

\* a callback in flight either stays as it is or is answered, its trace
\* continued and its provider call not repeated
C6_Continues(r) ==
    req[r].route = "callback"
    => \/ req'[r] = req[r]
       \/ /\ req'[r] = Idle
          /\ resp'.route = "callback"
          /\ SubSeq(resp'.trace, 1, Len(req[r].trace)) = req[r].trace
          /\ Len(resp'.trace) > Len(req[r].trace)
          /\ resp'.calls = req[r].calls

\* C6: each callback moves through AWAITING_CODE, NONCE_CHECKED,
\* CODE_EXCHANGED, TOKEN_ISSUED, RESPONSE_RENDERED in that order and ends in
\* exactly one terminal state; the provider is called at most once, only after
\* the code and nonce checks, and a token is issued only after that call has
\* returned a user.
C6_StateMachine ==
    /\ [](\A q \in Callbacks : C6_Order(q))
    /\ [][\A r \in ReqIds : C6_Continues(r)]_vars

C6_Witness ==
    /\ resp.route = "callback" /\ resp.phase = "RESPONSE_RENDERED"
    /\ resp.calls = 1 /\ resp.token # NoToken

\* C7: when the code exchange fails the callback ends in
\* REJECTED_EXCHANGE_FAILED with status 500: no token, no session cookie,
\* neither the account redirect nor the deep-link page, and in production the
\* body is the fixed generic message, with none of the provider's error text.
C7_ExchangeFailure ==
    (resp.route = "callback" /\ resp.phase = "REJECTED_EXCHANGE_FAILED")
    => /\ resp.status = 500
       /\ resp.user = NoUser
       /\ resp.token = NoToken
       /\ resp.setToken = NoToken
       /\ resp.body.kind = "error"
       /\ resp.body.location = ""
       /\ resp.body.deepLink = NoLink
       /\ isProduction
             => /\ resp.body.text = GenericErrorText
                /\ Truthy(resp.err) => ~Contains(resp.body.text, resp.err)

C7_Witness ==
    /\ resp.route = "callback" /\ resp.phase = "REJECTED_EXCHANGE_FAILED"
    /\ resp.calls = 1 /\ isProduction /\ resp.err = <<"<", "e", ">">>

\* C8: every callback that reaches RESPONSE_RENDERED has set the deskly_token
\* cookie to the token issued in that same request, whatever the source.
C8_SessionCookieAlwaysSet ==
    (resp.route = "callback" /\ resp.phase = "RESPONSE_RENDERED")
    => /\ resp.token # NoToken
       /\ resp.token = signToken(resp.user, now)
       /\ resp.setToken = resp.token
       /\ jar[resp.client].deskly_token = resp.token

C8_Witness ==
    /\ resp.route = "callback" /\ resp.phase = "RESPONSE_RENDERED"
    /\ resp.context.source = "mobile"
    /\ jar[resp.client].deskly_token = resp.token

\* C9: a successful callback whose verified context has source web sets the
\* session cookie and answers with a redirect to /account that carries no
\* token; it never renders the deep-link page.
C9_WebRedirect ==
    (resp.route = "callback" /\ resp.phase = "RESPONSE_RENDERED"
     /\ resp.context.source = "web")
    => /\ resp.status = 302
       /\ resp.body = Redirect("/account", StateAbsent)
       /\ resp.body.kind # "desktopPage"
       /\ resp.body.deepLink = NoLink
       /\ resp.setToken = resp.token
       /\ resp.token # NoToken

C9_Witness ==
    /\ resp.route = "callback" /\ resp.phase = "RESPONSE_RENDERED"
    /\ resp.context.source = "web" /\ resp.state.source = "web"
    /\ resp.status = 302

\* C10: a successful callback whose source is absent, desktop or anything but
\* web renders the deep-link page with the link
\* <scheme>://auth/callback?token=<URL-encoded token>; the token is the one of
\* the session cookie, verifyToken accepts it, and its sub and email are the
\* id and email the provider returned.
C10_DeepLink ==
    (resp.route = "callback" /\ resp.phase = "RESPONSE_RENDERED"
     /\ resp.context.source # "web")
    => LET link == resp.body.deepLink
           cookie == jar[resp.client].deskly_token
           v == verifyToken(decodeURIComponent(link.token), now)
       IN  /\ resp.status = 200
           /\ resp.body.kind = "desktopPage"
           /\ link.scheme = desktopScheme
           /\ link.path = "auth/callback"
           /\ link.token.chars \in {"unreserved", "percent-encoded"}
           /\ decodeURIComponent(link.token) = cookie
           /\ cookie = resp.setToken
           /\ v.ok
           /\ v.claims.sub = resp.user.id
           /\ v.claims.email = resp.user.email
           /\ resp.user \in Users

C10_Witness ==
    /\ resp.route = "callback" /\ resp.phase = "RESPONSE_RENDERED"
    /\ resp.state.kind = "object" /\ resp.state.source = ""
    /\ resp.state.device_id = "abc123"
    /\ resp.body.kind = "desktopPage"
    /\ verifyToken(resp.body.deepLink.token, now).claims.sub = <<"u", "1">>

\* whether a token is signed with the server's current key and not yet expired
SignedAndFresh(t) == t.kind = "jwt" /\ t.key = JWT_KEY /\ now < t.exp

\* C11: verifyToken returns the claims of a token if and only if the token is
\* signed with the server's current key and the clock is before its expiry;
\* every other text (none, malformed, expired, another key) gives the same
\* outcome, null, and the routes that examined a token answered accordingly.
C11_VerifyIffSignedAndFresh ==
    /\ \A t \in TokenTexts \cup {resp.examined} :
          LET v == verifyToken(t, now) IN
          IF SignedAndFresh(t)
          THEN /\ v.ok
               /\ v.claims = [sub |-> t.sub, email |-> t.email, name |-> t.name,
                              picture |-> t.picture, iat |-> t.iat, exp |-> t.exp]
          ELSE v = [ok |-> FALSE, claims |-> NoClaims]
    /\ resp.examined # NoToken
          => ((resp.status = 200) <=> SignedAndFresh(resp.examined))

C11_Witness ==
    /\ resp.route = "me" /\ resp.status = 401
    /\ resp.examined.kind = "jwt" /\ resp.examined.key # JWT_KEY
    /\ now < resp.examined.exp

\* C12: a token signToken has made verifies to the claims it was made from
\* (sub, email, name, picture) at every time before its expiry, 30 days after
\* it was issued, and is invalid at every time from the expiry on.
C12_RoundTrip ==
    \A u \in Users, t0 \in {0, now} :
        LET v == verifyToken(signToken(u, t0), now) IN
        IF now < t0 + 30
        THEN /\ v.ok
             /\ v.claims.sub = u.id
             /\ v.claims.email = u.email
             /\ v.claims.name = (IF Truthy(u.firstName) THEN displayNameOf(u)
                                 ELSE splitAt0(u.email))
             /\ v.claims.picture = u.profilePictureUrl
             /\ v.claims.iat = t0
        ELSE v = [ok |-> FALSE, claims |-> NoClaims]

C12_Witness ==
    /\ resp.route = "me" /\ resp.status = 401
    /\ \E u \in Users : resp.examined = signToken(u, 0)
    /\ now = 30

\* C13: once the signing key has been replaced, every token issued under the
\* old key is rejected at once, with no revocation step: verifyToken gives
\* null, /api/me answers 401 to it as cookie and as Bearer token, and /account
\* redirects to login.
C13_RotationRejectsOldTokens ==
    /\ \A c \in Clients :
          LET tk == jar[c].deskly_token IN
          (tk.kind = "jwt" /\ tk.key # JWT_KEY)
          => /\ ~verifyToken(tk, now).ok
             /\ meHandler(ArrivedSession("me", c, "GET", NoAuth, tk), now).status = 401
             /\ meHandler(ArrivedSession("me", c, "GET", Bearer(tk), NoToken), now).status
                    = 401
             /\ accountHandler(ArrivedSession("account", c, "GET", NoAuth, tk),
                               configured, now).body
                    = Redirect("/auth/login?source=web", StateAbsent)
    /\ (resp.examined.kind = "jwt" /\ resp.examined.key # JWT_KEY)
          => /\ resp.route = "me" => resp.status = 401
             /\ resp.route = "account"
                   => resp.body = Redirect("/auth/login?source=web", StateAbsent)

C13_Witness ==
    /\ resp.route = "account" /\ resp.phase = "ACCOUNT_REDIRECT"
    /\ resp.examined = jar[resp.client].deskly_token
    /\ resp.examined.kind = "jwt" /\ resp.examined.key # JWT_KEY
    /\ now < resp.examined.exp

\* the tokens a request to /api/me presents
Presented(q) ==
    (IF q.auth.scheme = "Bearer" THEN {q.auth.token} ELSE {}) \cup {q.cookieToken}

\* C15: /api/me answers 200 with claims only when the token it examined is
\* accepted by verifyToken; with no Authorization header and no session
\* cookie, or with a token that fails verification, it answers 401 with a
\* body that holds an error text and no claims.
C15_MeOnlyWithAcceptedToken ==
    resp.route = "me"
    => /\ resp.status \in {200, 401}
       /\ resp.status = 200
             => /\ resp.examined \in Presented(resp)
                /\ verifyToken(resp.examined, now).ok
                /\ resp.body = JsonUser(verifyToken(resp.examined, now).claims)
       /\ (resp.auth.scheme # "Bearer" /\ resp.cookieToken = NoToken) => resp.status = 401
       /\ (\A t \in Presented(resp) : ~verifyToken(t, now).ok) => resp.status = 401
       /\ ~verifyToken(resp.examined, now).ok => resp.status = 401
       /\ resp.status = 401
             => /\ Truthy(resp.body.text)
                /\ resp.body = JsonError(resp.body.text)
                /\ resp.body.claims = NoClaims

C15_Witness ==
    /\ resp.route = "me" /\ resp.status = 401
    /\ resp.auth = NoAuth
    /\ resp.cookieToken.kind = "jwt" /\ resp.cookieToken.key = JWT_KEY
    /\ now >= resp.cookieToken.exp

\* C16: with the provider configured, /account renders user details only
\* from a session cookie verifyToken accepts in that request; when the
\* cookie is absent, expired or otherwise invalid it redirects to
\* /auth/login?source=web and renders no user details.
C16_AccountOnlyWithAcceptedCookie ==
    (resp.route = "account" /\ configured)
    => LET v == verifyToken(resp.cookieToken, now) IN
       IF resp.cookieToken # NoToken /\ v.ok
       THEN /\ resp.status = 200
            /\ resp.body = accountPage(v.claims)
       ELSE /\ resp.status = 302
            /\ resp.body = Redirect("/auth/login?source=web", StateAbsent)
            /\ resp.body.displayName = <<>> /\ resp.body.email = <<>>
            /\ resp.body.userId = <<>> /\ resp.body.picture = <<>>
            /\ resp.body.claims = NoClaims

C16_Witness ==
    /\ resp.route = "account" /\ configured
    /\ resp.cookieToken.kind = "jwt" /\ resp.cookieToken.key # JWT_KEY
    /\ now < resp.cookieToken.exp
    /\ resp.phase = "ACCOUNT_REDIRECT"

\* what every /auth/login does with the nonce: a new one, set as the cookie
C17_FreshNonceCookie ==
    /\ resp.setNonce # 0
    /\ resp.setNonce = nonces
    /\ resp.setNonce # resp.cookieNonce
    /\ jar[resp.client].oauth_nonce = resp.setNonce

\* the redirect to the provider, its state carrying the nonce of the cookie,
\* the device_id and the source of the request
C17_RedirectWithState ==
    /\ resp.status = 302
    /\ resp.body = Redirect("provider",
                            stateText("object", resp.setNonce,
                                      IF resp.query.source = "" THEN "desktop"
                                      ELSE resp.query.source,
                                      resp.query.device_id))

\* C17 as stated: /auth/login always sets an oauth_nonce cookie holding a
\* freshly generated nonce and redirects to the provider with a state that
\* carries that nonce, the device_id of the request (null when absent) and its
\* source (desktop when absent).
C17_LoginAlwaysRedirects ==
    resp.route = "login" => C17_FreshNonceCookie /\ C17_RedirectWithState

\* C17, amended: /auth/login always sets the cookie with a fresh nonce; it
\* redirects with that state when the provider client can be built, and when
\* the provider configuration is missing it answers 500 from the error handler
\* with no redirect.
C17_LoginRedirectsWhenConfigured ==
    resp.route = "login"
    => /\ C17_FreshNonceCookie
       /\ configured => C17_RedirectWithState
       /\ ~configured
             => /\ resp.status = 500
                /\ resp.body = errorHandler(NoApiKeyError, isProduction)
                /\ resp.body.location = ""

C17_Witness ==
    /\ resp.route = "login" /\ resp.status = 302
    /\ resp.query = [device_id |-> "", source |-> ""]
    /\ resp.body.state.source = "desktop" /\ resp.body.state.device_id = ""
    /\ resp.cookieNonce # 0
    /\ resp.body.state.n = jar[resp.client].oauth_nonce

\* what every logout does: clear the session cookie and redirect home
C20_ClearsAndRedirects ==
    resp.route = "logout"
    => /\ resp.method \in {"GET", "POST"}
       /\ resp.status = 302
       /\ resp.body = Redirect("/", StateAbsent)
       /\ resp.clearToken
       /\ jar[resp.client].deskly_token = NoToken

\* the answer to a request of browser c to /api/me without Authorization header
MeOf(c) == meHandler(ArrivedSession("me", c, "GET", NoAuth, jar[c].deskly_token), now)

\* the answer to a request of browser c to /account
AccountOf(c) ==
    accountHandler(ArrivedSession("account", c, "GET", NoAuth, jar[c].deskly_token),
                   configured, now)

\* C20 as stated: GET and POST /auth/logout clear the deskly_token cookie and
\* redirect home whether or not a session cookie was present or valid; a
\* request of that browser after the logout gets 401 from /api/me without an
\* Authorization header and a redirect to login from /account.
C20_LogoutEndsSession ==
    /\ C20_ClearsAndRedirects
    /\ resp.route = "logout"
          => /\ MeOf(resp.client).status = 401
             /\ AccountOf(resp.client).body
                    = Redirect("/auth/login?source=web", StateAbsent)

\* C20, amended: as stated, except that /account redirects to login when the
\* provider is configured and shows the informational page, with no user
\* details, when it is not.
C20_LogoutEndsSessionWhenConfigured ==
    /\ C20_ClearsAndRedirects
    /\ resp.route = "logout"
          => /\ MeOf(resp.client).status = 401
             /\ MeOf(resp.client).body.claims = NoClaims
             /\ AccountOf(resp.client).body
                    = (IF configured THEN Redirect("/auth/login?source=web", StateAbsent)
                       ELSE TextBody(InfoPageText))

C20_Witness ==
    /\ resp.route = "logout" /\ resp.method = "POST"
    /\ verifyToken(resp.cookieToken, now).ok
    /\ jar[resp.client].deskly_token = NoToken

\* C14: in production with no signing secret the process refuses to start:
\* it serves no request, and no token is signed or verified with the
\* built-in default key.
C14_RefusesToStartWithoutSecret ==
    (isProduction /\ jwtSecret = "")
    => /\ ~up
       /\ resp = Idle
       /\ \A r \in ReqIds : req[r] = Idle
       /\ \A c \in Clients : jar[c].deskly_token.key # DefaultSecret

\* the characters esc replaces so that a text cannot open a tag or close an
\* attribute
RawChars == {"<", ">", "\"", "'"}

NoRaw(text) == \A i \in DOMAIN text : text[i] \notin RawChars

\* C19: every provider-supplied or user-supplied string (name, email,
\* picture URL, user id, deep link, error message) is HTML-escaped before it
\* is placed in a response body: the rendered text holds none of the raw
\* characters <, >, ", ' of the input.
C19_BodiesAreEscaped ==
    resp.body.kind \in {"desktopPage", "accountPage", "error"}
    => /\ NoRaw(resp.body.text)
       /\ NoRaw(resp.body.displayName)
       /\ NoRaw(resp.body.email)
       /\ NoRaw(resp.body.userId)
       /\ NoRaw(resp.body.picture)
       /\ NoRaw(resp.body.avatar)
       /\ resp.body.deepLink.token.chars # "reserved"

\* the steps of other browsers leave the cookie jar and the callbacks in
\* flight of browser c alone: its jar changes only by the cookies of an answer
\* to c or by the expiry of its nonce cookie, and a callback of c in flight
\* only by its own code exchange coming back
C18_Frame(c) ==
    /\ jar'[c] # jar[c]
          => \/ /\ resp = Idle /\ resp' # Idle /\ resp'.client = c
                /\ jar'[c] = applyCookies(jar[c], resp')
             \/ jar'[c] = [jar[c] EXCEPT !.oauth_nonce = 0]
    /\ \A r \in ReqIds :
          (req[r] # Idle /\ req[r].client = c /\ req'[r] # req[r])
          => /\ req'[r] = Idle
             /\ resp'.client = c
             /\ resp' \in { callbackResume(req[r], u, now) : u \in Users }
                          \cup { callbackFail(req[r], m, isProduction) :
                                   m \in ProviderErrors }

\* a callback of browser c is handled as it would be alone: from its own
\* query and the nonce cookie of its own jar
C18_Alone(c) ==
    /\ \A r \in ReqIds :
          (req[r] = Idle /\ req'[r] # Idle /\ req'[r].client = c)
          => req'[r] = callbackEntry(Arrived("callback", c, req'[r].code, req'[r].state,
                                             jar[c].oauth_nonce),
                                     configured, isProduction)
    /\ (resp = Idle /\ resp' # Idle /\ req' = req
        /\ resp'.route = "callback" /\ resp'.client = c)
          => resp' = callbackEntry(Arrived("callback", c, resp'.code, resp'.state,
                                           jar[c].oauth_nonce),
                                   configured, isProduction)

\* C18: the flows of two clients with separate cookie jars are independent:
\* in every interleaving of their logins and callbacks, the outcome of a
\* client's callback (terminal state, cookies set, token claims) is what its
\* own query, its own cookies and the provider's answer to it give, and no
\* step of the other client changes its cookies or its callbacks in flight.
C18_FlowsAreIndependent ==
    [][\A c \in Clients : C18_Frame(c) /\ C18_Alone(c)]_vars

C18_Witness ==
    /\ resp.route = "callback" /\ resp.client = "b1"
    /\ resp.phase = "RESPONSE_RENDERED" /\ resp.compared
    /\ jar["b1"].deskly_token = resp.token
    /\ \E r \in ReqIds :
          /\ req[r].client = "b2" /\ req[r].phase = "NONCE_CHECKED" /\ req[r].compared
    /\ jar["b2"].deskly_token = NoToken

\* the answer to the desktop application of client c, which sends the token
\* of the deep link as Bearer token next to the cookies of the browser
AppMeOf(c) ==
    meHandler(ArrivedSession("me", c, "GET", Bearer(jar[c].deep_link_token),
                             jar[c].deskly_token), now)

\* C21: the server keeps no revocation state: a token delivered through the
\* deep link is accepted by /api/me as Bearer token after the browser has
\* logged out, at every time before its expiry, and a logout changes nothing
\* on the server.
C21_BearerSurvivesLogout ==
    /\ [](\A c \in Clients :
            LET t == jar[c].deep_link_token IN
            (t # NoToken /\ t.key = JWT_KEY /\ now < t.exp)
            => /\ AppMeOf(c).status = 200
               /\ AppMeOf(c).body = JsonUser(verifyToken(t, now).claims))
    /\ [](resp.route = "me" /\ resp.auth.scheme = "Bearer"
           /\ resp.auth.token = jar[resp.client].deep_link_token
           /\ SignedAndFresh(resp.auth.token)
           => resp.status = 200)
    /\ [][resp'.route = "logout" /\ resp' # resp
           => UNCHANGED <<env, now, nonces, req>>]_vars

C21_Witness ==
    /\ resp.route = "me" /\ resp.status = 200
    /\ resp.auth = Bearer(jar[resp.client].deep_link_token)
    /\ resp.cookieToken = NoToken
    /\ jar[resp.client].deskly_token = NoToken
    /\ resp.auth.token.iat < now

\* the same callback URL sent again by the browser of the answered request
SentAgain(q) ==
    callbackEntry(Arrived("callback", q.client, q.code, q.state,
                          jar[q.client].oauth_nonce),
                  configured, isProduction)

C23_LoginFailureIs500 ==
    (resp.route = "login" /\ ~configured)
    => /\ resp.phase = "LOGIN_FAILED"
       /\ resp.status = 500
       /\ resp.err = NoApiKeyError
       /\ resp.body = errorHandler(resp.err, isProduction)
       /\ resp.body.kind = "error"
       /\ resp.body.location = ""
       /\ resp.body.state = StateAbsent
       /\ isProduction => resp.body.text = GenericErrorText

C23_Witness ==
    /\ resp.route = "login" /\ ~configured /\ isProduction
    /\ resp.status = 500 /\ resp.body.text = GenericErrorText

\* C24: every cookie the relay sets is HTTP-only and SameSite=Lax, and marked
\* secure exactly when the server runs in production; the nonce cookie is set
\* with path /auth/callback and a max-age of 10 minutes and is cleared with
\* that same path, so that the clearing removes it from the browser; the
\* session cookie is set with a max-age of 30 days.
C24_CookieAttributes ==
    /\ \A q \in Seen :
          /\ q.setNonce # 0
             => q.setNonceOptions = [httpOnly |-> TRUE, secure |-> isProduction,
                                     sameSite |-> "lax", maxAge |-> 600,
                                     path |-> "/auth/callback"]
          /\ q.setToken # NoToken
             => /\ q.setTokenOptions.httpOnly
                /\ q.setTokenOptions.sameSite = "lax"
                /\ q.setTokenOptions.secure = isProduction
                /\ q.setTokenOptions.maxAge = 30 * 86400
          /\ q.clearNonce => q.clearNonceOptions.path = "/auth/callback"
          /\ q.setNonce = 0 => q.setNonceOptions = NoOptions
          /\ q.setToken = NoToken => q.setTokenOptions = NoOptions
    /\ (resp.clearNonce /\ resp.phase \in Terminal) => jar[resp.client].oauth_nonce = 0

C24_Witness ==
    /\ isProduction
    /\ resp.route = "callback" /\ resp.phase = "RESPONSE_RENDERED"
    /\ resp.cookieNonce # 0 /\ resp.clearNonce /\ resp.setToken # NoToken
    /\ resp.setTokenOptions.secure /\ resp.setTokenOptions.maxAge = 30 * 86400
    /\ jar[resp.client].oauth_nonce = 0

\* whether a callback passed the nonce check with its nonce compared
PassedNonceCheck(q) ==
    q.route = "callback" /\ q.compared /\ Reached(q, "NONCE_CHECKED")

\* C25 as stated: a nonce is accepted by at most one callback. After a
\* callback that passed the nonce check has been answered (its cookie
\* clearing applied), the same callback sent again by that browser is
\* rejected with REJECTED_CSRF; and two callbacks with the same nonce cookie
\* and the same state, in flight at the same time, have not both passed the
\* nonce check.
C25_NonceAcceptedOnce ==
    /\ (PassedNonceCheck(resp) /\ resp.phase \in Terminal)
       => SentAgain(resp).phase = "REJECTED_CSRF"
    /\ \A r1, r2 \in ReqIds :
          (/\ r1 # r2
           /\ req[r1].client = req[r2].client
           /\ req[r1].cookieNonce = req[r2].cookieNonce
           /\ req[r1].state = req[r2].state)
          => ~(PassedNonceCheck(req[r1]) /\ PassedNonceCheck(req[r2]))

\* the callback of the flow that login number n started with source s, as the
\* browser sends it now
FlowCallback(n, s) ==
    callbackEntry(Arrived("callback", "b1", "c1", stateText("object", n, s, ""),
                          jar["b1"].oauth_nonce),
                  configured, isProduction)

\* C26: when one browser starts two login flows before completing either,
\* the second login overwrites the nonce cookie of the first; the callback of
\* the first flow is rejected with REJECTED_CSRF and does not clear the cookie
\* (the jar and the requests in flight stay as they are), and the callback of
\* the second flow passes the nonce check and, once the provider returns a
\* user, is answered with a session, whether it arrives before or after the
\* callback of the first flow.
C26_SecondLoginWins ==
    /\ [](configured =>
           /\ jar["b1"].oauth_nonce \in {0, nonces}
           /\ \A q \in Callbacks :
                 (q.code # "" /\ q.state.kind = "object" /\ q.state.n # q.cookieNonce)
                 => /\ q = resp
                    /\ q.phase = "REJECTED_CSRF"
                    /\ ~q.clearNonce /\ q.calls = 0 /\ q.setToken = NoToken
           /\ \A q \in Callbacks :
                 (q.code # "" /\ q.state.kind = "object" /\ q.state.n = q.cookieNonce)
                 => /\ Reached(q, "NONCE_CHECKED") /\ q.calls = 1
                    /\ q.phase \in {"NONCE_CHECKED", "RESPONSE_RENDERED",
                                     "REJECTED_EXCHANGE_FAILED"}
           /\ (nonces >= 2 /\ jar["b1"].oauth_nonce = nonces)
              => \A s \in {"web", "desktop"} :
                    /\ \A m \in 1..(nonces - 1) :
                          /\ FlowCallback(m, s).phase = "REJECTED_CSRF"
                          /\ applyCookies(jar["b1"], FlowCallback(m, s)) = jar["b1"]
                    /\ FlowCallback(nonces, s).phase = "NONCE_CHECKED"
                    /\ \A u \in Users :
                          LET q == callbackResume(FlowCallback(nonces, s), u, now)
                          IN  /\ q.phase = "RESPONSE_RENDERED"
                              /\ q.setToken = signToken(u, now))
    /\ [][/\ (resp = Idle /\ resp'.route = "login")
             => /\ jar'["b1"].oauth_nonce = nonces'
                /\ nonces' > jar["b1"].oauth_nonce
          /\ (resp = Idle /\ resp'.route = "callback" /\ resp'.phase = "REJECTED_CSRF")
             => (jar' = jar /\ req' = req)]_vars

\* the callback of the second flow is in flight with the nonce check passed,
\* and the callback of the first flow has just been rejected without touching
\* the cookie of the second
C26_Witness ==
    /\ configured /\ nonces = 2 /\ jar["b1"].oauth_nonce = 2
    /\ \E r \in ReqIds :
          /\ req[r].phase = "NONCE_CHECKED" /\ req[r].state.kind = "object"
          /\ req[r].state.n = 2 /\ req[r].compared
    /\ resp.route = "callback" /\ resp.phase = "REJECTED_CSRF"
    /\ resp.state.kind = "object" /\ resp.state.n = 1 /\ resp.cookieNonce = 2

Rejections == {"REJECTED_NO_CODE", "REJECTED_CSRF", "REJECTED_EXCHANGE_FAILED"}

\* C27: a callback that ends in REJECTED_NO_CODE, REJECTED_CSRF or
\* REJECTED_EXCHANGE_FAILED writes no session cookie header: the browser's
\* session cookie is the same after the answer as before, and a browser with
\* a valid session cookie is still recognised by /api/me (200 with its
\* claims) and by /account (the account page).
C27_FailedCallbackKeepsSession ==
    /\ [](\A q \in Seen :
            (q.route = "callback" /\ q.phase \in Rejections)
            => /\ q.setToken = NoToken /\ q.setTokenOptions = NoOptions
               /\ ~q.clearToken)
    /\ [][\A c \in Clients :
            (resp = Idle /\ resp'.route = "callback" /\ resp'.phase \in Rejections
             /\ resp'.client = c)
            => LET t == jar[c].deskly_token IN
               /\ jar'[c].deskly_token = t
               /\ UNCHANGED <<env, now>>
               /\ SignedAndFresh(t)
                  => /\ MeOf(c)'.status = 200
                     /\ AccountOf(c)'.phase = "ACCOUNT_PAGE"]_vars

C27_Witness ==
    /\ resp.route = "callback" /\ resp.phase = "REJECTED_EXCHANGE_FAILED"
    /\ resp.calls = 1
    /\ SignedAndFresh(jar[resp.client].deskly_token)
    /\ MeOf(resp.client).status = 200
    /\ AccountOf(resp.client).phase = "ACCOUNT_PAGE"

\* C28: when the Authorization header of a request to /api/me starts with
\* "Bearer ", the text after the prefix is the only token examined: the answer
\* is the one the same request gets without its session cookie, so an invalid
\* or empty bearer token is answered 401 even next to a valid session cookie;
\* the cookie is examined only when there is no Bearer header.
C28_BearerTakesPrecedence ==
    resp.route = "me"
    => /\ resp.auth.scheme = "Bearer"
          => /\ resp.examined = resp.auth.token
             /\ [resp EXCEPT !.cookieToken = NoToken]
                  = meHandler(ArrivedSession("me", resp.client, resp.method, resp.auth,
                                             NoToken), now)
             /\ (resp.auth.token = NoToken \/ ~verifyToken(resp.auth.token, now).ok)
                => /\ resp.status = 401 /\ resp.body.claims = NoClaims
                   /\ resp.body.kind = "json"
       /\ (resp.examined # NoToken /\ resp.examined # resp.auth.token)
          => (resp.auth.scheme # "Bearer" /\ resp.examined = resp.cookieToken)
       /\ resp.auth.scheme # "Bearer" => resp.examined = resp.cookieToken

C28_Witness ==
    /\ resp.route = "me" /\ resp.auth.scheme = "Bearer"
    /\ resp.auth.token.kind = "jwt" /\ resp.auth.token.key # JWT_KEY
    /\ SignedAndFresh(resp.cookieToken)
    /\ resp.status = 401 /\ resp.examined = resp.auth.token

\* the account view shows the sub and the email of token t
ShowsAccountOf(q, t) ==
    /\ q.phase = "ACCOUNT_PAGE" /\ q.status = 200
    /\ q.body.kind = "accountPage" /\ q.body.location = ""
    /\ q.body.userId = esc(t.sub) /\ q.body.email = esc(t.email)

\* C29: a successful flow with source web ends in a redirect to /account with
\* the session cookie set to a token that holds the id and the email of the
\* user the provider returned, and GET /account with that cookie renders the
\* account view with that sub and email, without a redirect, at every time
\* before the token expires (under the key the token was signed with).
C29_WebFlowShowsAccount ==
    /\ (resp.route = "callback" /\ resp.phase = "RESPONSE_RENDERED"
        /\ resp.context.source = "web")
       => /\ resp.body = Redirect("/account", StateAbsent)
          /\ resp.token.sub = resp.user.id /\ resp.token.email = resp.user.email
          /\ resp.token.exp = now + TokenLifetimeDays
          /\ jar[resp.client].deskly_token = resp.token
          /\ ShowsAccountOf(AccountOf(resp.client), resp.token)
    /\ (resp.route = "account" /\ SignedAndFresh(resp.cookieToken))
       => /\ ShowsAccountOf(resp, resp.cookieToken)
          /\ \E u \in Users : /\ resp.cookieToken.sub = u.id
                               /\ resp.cookieToken.email = u.email

\* /account is asked days after a web flow by a browser that never completed
\* a desktop flow, and shows the account
C29_Witness ==
    /\ resp.route = "account" /\ resp.phase = "ACCOUNT_PAGE"
    /\ resp.cookieToken = jar[resp.client].deskly_token
    /\ jar[resp.client].deep_link_token = NoToken
    /\ resp.cookieToken.iat < now /\ now < resp.cookieToken.exp
    /\ resp.body.email = esc(resp.cookieToken.email)

\* C30 as stated: for every user the provider returns, the name shown on the
\* deep-link page is the (escaped) name claim of the token issued in the same
\* callback: first name plus last name when a first name is present,
\* otherwise the local part of the email.
C30_PageNameIsTokenName ==
    (resp.route = "callback" /\ resp.body.kind = "desktopPage")
    => /\ resp.token.name = IF Truthy(resp.user.firstName) THEN displayNameOf(resp.user)
                            ELSE splitAt0(resp.user.email)
       /\ resp.body.displayName = esc(resp.token.name)

\* what a callback shows to its observers: the phases it went through, its
\* status and body, its cookie headers, the token it issued and its calls to
\* the provider
Surface(q) ==
    [phase |-> q.phase, trace |-> q.trace, status |-> q.status, body |-> q.body,
     setNonce |-> q.setNonce, clearNonce |-> q.clearNonce,
     clearNonceOptions |-> q.clearNonceOptions, setToken |-> q.setToken,
     setTokenOptions |-> q.setTokenOptions, clearToken |-> q.clearToken,
     token |-> q.token, calls |-> q.calls, err |-> q.err, compared |-> q.compared]

\* the callback q as it would have entered with device_id d in its state
EntryWithDevice(q, d) ==
    callbackEntry(Arrived("callback", q.client, q.code, [q.state EXCEPT !.device_id = d],
                          q.cookieNonce),
                  configured, isProduction)

\* the callback q as it stands, had its state carried device_id d
WithDevice(q, d) ==
    LET e == EntryWithDevice(q, d) IN
    IF e.phase # "NONCE_CHECKED" \/ q.phase = "NONCE_CHECKED" THEN e
    ELSE IF q.phase = "RESPONSE_RENDERED" THEN callbackResume(e, q.user, q.token.iat)
    ELSE callbackFail(e, q.err, isProduction)

\* C31: the device_id carried in the state has no effect on a callback: the
\* same request with any other device_id in its state goes through the same
\* phases to the same terminal state, sets and clears the same cookies,
\* issues a token with the same claims and gives the same status and body.
C31_DeviceIdHasNoEffect ==
    \A q \in Callbacks :
        q.state.kind = "object"
        => \A d \in DeviceIds : Surface(WithDevice(q, d)) = Surface(q)

C31_Witness ==
    /\ resp.route = "callback" /\ resp.phase = "RESPONSE_RENDERED"
    /\ resp.state.kind = "object" /\ resp.state.device_id = "abc123"
    /\ resp.context.device_id = "abc123" /\ resp.body.kind = "desktopPage"
    /\ WithDevice(resp, "").context.device_id = ""
    /\ Surface(WithDevice(resp, "")) = Surface(resp)

\* C32: every callback reaches one terminal state provided the provider's
\* code exchange returns or fails in the end. The exchange is the only step
\* at which a request waits: every other callback is answered in the step in
\* which it arrives. A waiting request is answered by nothing but the answer
\* of the provider: the passing of time changes nothing about it, so with a
\* provider that stays silent it never produces a response.
C32_CallbackTerminates ==
    /\ [](\A r \in ReqIds :
            req[r] # Idle
            => /\ req[r].route = "callback" /\ req[r].phase = "NONCE_CHECKED"
               /\ req[r].calls = 1 /\ req[r].status = 0 /\ req[r].body = NoBody)
    /\ [](resp.route = "callback"
           => /\ resp.phase \in Terminal /\ resp.status # 0
              /\ Len(SelectSeq(resp.trace, LAMBDA p : p \in Terminal)) = 1)
    /\ [][\A r \in ReqIds :
            (req[r] # Idle /\ req'[r] # req[r])
            => /\ req'[r] = Idle
               /\ \/ \E u \in Users : resp' = callbackResume(req[r], u, now)
                  \/ \E m \in ProviderErrors : resp' = callbackFail(req[r], m, isProduction)
               /\ resp'.phase \in Terminal]_vars
    /\ \A r \in ReqIds : (req[r].phase = "NONCE_CHECKED") ~> (req[r] = Idle)

\* a request has waited for the provider while the clock advanced and has
\* then been answered, and another one still waits
C32_Witness ==
    /\ resp.route = "callback" /\ resp.calls = 1 /\ resp.phase \in Terminal
    /\ resp.phase = "REJECTED_EXCHANGE_FAILED"
    /\ now > 0
    /\ \E r \in ReqIds : req[r].phase = "NONCE_CHECKED"

====
